---- MODULE Spec2Model ----
(***************************************************************************)
(* A model of src/src/ser.rs (pythonize): the serde Serializer that turns  *)
(* a value of the serde data model into a Python object through a type set *)
(* P : PythonizeTypes (P::Map, P::NamedMap, P::List).                      *)
(*                                                                         *)
(* Python objects are records tagged by t.  Strings are TLA+ strings; the  *)
(* bytes of a string, needed only by the two JSON encoders of test_ser,    *)
(* are given by the table StrBytes.  Every call into the type set and      *)
(* every value.serialize(Pythonizer<P>) is appended to a log that is       *)
(* threaded through the handlers, so that call order is observable.        *)
(***************************************************************************)
EXTENDS Integers, Sequences, FiniteSets, TLC

VARIABLES P, ser, w, result, hist

vars == <<P, ser, w, result, hist>>

(***************************************************************************)
(* Bounds of the model.                                                    *)
(***************************************************************************)
\* longest sequence / map / field list of a generated source value
MaxLen == 2
\* most method calls the driver makes on one compound serializer before end()
MaxCalls == 4
\* latest type-set call at which a user-supplied type set may fail
MaxFault == 3

(***************************************************************************)
(* Small helpers.                                                          *)
(***************************************************************************)
SeqsUpTo(S, n) == UNION {[1..m -> S] : m \in 0..n}

RECURSIVE Concat(_)
Concat(ss) == IF ss = <<>> THEN <<>> ELSE Head(ss) \o Concat(Tail(ss))

(***************************************************************************)
(* Python objects (Bound<'py, PyAny>).                                     *)
(***************************************************************************)
Nil == [t |-> "nil"]
PyNone == [t |-> "None"]
PyBool(b) == [t |-> "bool", b |-> b]
PyInt(i) == [t |-> "int", i |-> i]
PyStr(s) == [t |-> "str", s |-> s]
PyBytesObj(bs) == [t |-> "bytes", bs |-> bs]
PyListObj(items) == [t |-> "list", items |-> items]
PyTupleObj(items) == [t |-> "tuple", items |-> items]
PyDictObj(items) == [t |-> "dict", items |-> items]

\* Python's hash(): lists and dicts are unhashable, a tuple is hashable when
\* all its items are.
RECURSIVE PyHashable(_)
PyHashable(x) ==
    CASE x.t \in {"list", "dict"} -> FALSE
      [] x.t = "tuple" -> \A i \in 1..Len(x.items) : PyHashable(x.items[i])
      [] OTHER -> TRUE

\* Python's == on dict keys: True == 1 and False == 0, tuples item by item.
PyNum(x) == IF x.t = "bool" THEN (IF x.b THEN 1 ELSE 0) ELSE x.i

RECURSIVE PyEq(_, _)
PyEq(a, b) ==
    CASE a.t \in {"bool", "int"} /\ b.t \in {"bool", "int"} -> PyNum(a) = PyNum(b)
      [] a.t = "tuple" /\ b.t = "tuple" ->
            /\ Len(a.items) = Len(b.items)
            /\ \A i \in 1..Len(a.items) : PyEq(a.items[i], b.items[i])
      [] a.t # b.t -> FALSE
      [] OTHER -> a = b

\* PyErr raised by dict.__setitem__ on an unhashable key, and by a failing
\* user-supplied type set.
UnhashableErr == [pyerr |-> "TypeError: unhashable type"]
HostErr == [pyerr |-> "user type set raised"]

\* PyDict::set_item on the insertion-ordered item list of a dict: an equal
\* key keeps its place (and the old key object), a new key is appended.
DictFind(items, k) == {i \in 1..Len(items) : PyEq(items[i][1], k)}

DictIndex(items, k) == CHOOSE j \in DictFind(items, k) : TRUE

DictSetItem(items, k, v) ==
    IF DictFind(items, k) = {}
    THEN Append(items, <<k, v>>)
    ELSE [items EXCEPT ![DictIndex(items, k)] = <<items[DictIndex(items, k)][1], v>>]

(***************************************************************************)
(* Errors and results.                                                     *)
(***************************************************************************)
\* From<PyErr> for PythonizeError, applied by `?` on a PyResult.
PythonizeError_from(pyerr) == [variant |-> "PyErr", e |-> pyerr]
\* ser::Error::custom(msg), what a failing Serialize impl returns.
PythonizeError_custom(msg) == [variant |-> "Message", e |-> msg]

NoErr == [variant |-> "none"]

\* Result<Bound<PyAny>> together with the log: st is "Ok", "Err" or "Panic".
Ok(val, w0) == [st |-> "Ok", val |-> val, err |-> NoErr, w |-> w0]
Err(e, w0) == [st |-> "Err", val |-> Nil, err |-> e, w |-> w0]
Panic(w0) == [st |-> "Panic", val |-> Nil, err |-> NoErr, w |-> w0]
\* the early return of `?` (or an unwinding panic): r without its value
Propagate(r) == [st |-> r.st, val |-> Nil, err |-> r.err, w |-> r.w]

\* Result<()> of a &mut self method: the serializer after the call.
SOk(s, w0) == [st |-> "Ok", self |-> s, err |-> NoErr, w |-> w0]
SErr(s, e, w0) == [st |-> "Err", self |-> s, err |-> e, w |-> w0]
SPanic(s, w0) == [st |-> "Panic", self |-> s, err |-> NoErr, w |-> w0]
SPropagate(s, r) == [st |-> r.st, self |-> s, err |-> r.err, w |-> r.w]

(***************************************************************************)
(* The log: w.log is the sequence of events, w.n the number of calls made  *)
(* into the type set so far.                                               *)
(***************************************************************************)
EmptyWorld == [log |-> <<>>, n |-> 0]

Note(w0, ev) == [log |-> Append(w0.log, ev), n |-> w0.n]
Tick(w0, ev) == [log |-> Append(w0.log, ev), n |-> w0.n + 1]

\* a user-supplied type set fails at its failAt-th call (0: never)
Fails(p, w0) == p.failAt = w0.n + 1

NextBuilderId(w0) ==
    1 + Cardinality({i \in 1..Len(w0.log) : w0.log[i].op = "create_builder"})

\* ghost identity of a PythonCollectionSerializer, to tell the collections
\* of one conversion apart in the log
NextCollectionId(w0) ==
    1 + Cardinality({i \in 1..Len(w0.log) : w0.log[i].op = "new_collection"})

(***************************************************************************)
(* Type sets (PythonizeTypes).                                             *)
(***************************************************************************)
PythonizeDefault ==
    [name |-> "PythonizeDefault", Map |-> "PyDict", NamedMap |-> "PyDict",
     List |-> "PyList", failAt |-> 0]

\* a caller's type set that selects PyTuple as the sequence type
TupleTypes ==
    [name |-> "TupleTypes", Map |-> "PyDict", NamedMap |-> "PyDict",
     List |-> "PyTuple", failAt |-> 0]

\* a caller's type set of user-written builders that behave like dict and
\* list and raise at their k-th call
UserTypes(k) ==
    [name |-> "UserTypes", Map |-> "UserMapping", NamedMap |-> "UserMapping",
     List |-> "UserSequence", failAt |-> k]

TypeSets == {PythonizeDefault, TupleTypes} \cup {UserTypes(k) : k \in 1..MaxFault}

(***************************************************************************)
(* The type-set interface: PythonizeMappingType, PythonizeNamedMappingType,*)
(* MappingBuilder and PythonizeListType, with the implementations for      *)
(* PyDict, PyList and PyTuple.  A builder is [id, impl, items].  Each call *)
(* returns [st, b or val, err, w], err being the PyErr raised.             *)
(***************************************************************************)
PyOk(b, val, ev, w0) ==
    [st |-> "Ok", b |-> b, val |-> val, err |-> NoErr,
     w |-> Tick(w0, [ev EXCEPT !.ok = TRUE, !.err = NoErr])]

PyRaise(b, e, ev, w0) ==
    [st |-> "Err", b |-> b, val |-> Nil, err |-> e,
     w |-> Tick(w0, [ev EXCEPT !.ok = FALSE, !.err = e])]

NewBuilder(id, impl) == [id |-> id, impl |-> impl, items |-> <<>>]

\* P::Map::create_builder(py, len): len is <<>> for None, <<n>> for Some(n)
MapCreateEvent(p, len, id) ==
    [op |-> "create_builder", ts |-> p, trait |-> "Map", impl |-> p.Map,
     optlen |-> len, id |-> id, ok |-> TRUE, err |-> NoErr]

Map_create_builder(p, len, w0) ==
    IF Fails(p, w0)
    THEN PyRaise(Nil, HostErr, MapCreateEvent(p, len, NextBuilderId(w0)), w0)
    ELSE PyOk(NewBuilder(NextBuilderId(w0), p.Map), Nil,
              MapCreateEvent(p, len, NextBuilderId(w0)), w0)

\* P::NamedMap::create_builder(py, len, name)
NamedMapCreateEvent(p, len, name, id) ==
    [op |-> "create_builder", ts |-> p, trait |-> "NamedMap", impl |-> p.NamedMap,
     len |-> len, name |-> name, id |-> id, ok |-> TRUE, err |-> NoErr]

NamedMap_create_builder(p, len, name, w0) ==
    IF Fails(p, w0)
    THEN PyRaise(Nil, HostErr, NamedMapCreateEvent(p, len, name, NextBuilderId(w0)), w0)
    ELSE PyOk(NewBuilder(NextBuilderId(w0), p.NamedMap), Nil,
              NamedMapCreateEvent(p, len, name, NextBuilderId(w0)), w0)

\* MappingBuilder::push_item(&mut self, key, value): PyDict::set_item
PushItemEvent(b, key, value) ==
    [op |-> "push_item", id |-> b.id, key |-> key, value |-> value,
     ok |-> TRUE, err |-> NoErr]

push_item(p, b, key, value, w0) ==
    IF Fails(p, w0) THEN PyRaise(b, HostErr, PushItemEvent(b, key, value), w0)
    ELSE IF ~PyHashable(key)
    THEN PyRaise(b, UnhashableErr, PushItemEvent(b, key, value), w0)
    ELSE PyOk([b EXCEPT !.items = DictSetItem(b.items, key, value)], Nil,
              PushItemEvent(b, key, value), w0)

\* MappingBuilder::finish(self): the dict as a PyMapping
FinishEvent(b) == [op |-> "finish", id |-> b.id, ok |-> TRUE, err |-> NoErr]

finish(p, b, w0) ==
    IF Fails(p, w0) THEN PyRaise(Nil, HostErr, FinishEvent(b), w0)
    ELSE PyOk(Nil, PyDictObj(b.items), FinishEvent(b), w0)

\* P::List::create_sequence(py, elements): PyList::new_bound for PyList (and
\* a user sequence), PyTuple::new_bound for PyTuple
CreateSequenceEvent(p, elements) ==
    [op |-> "create_sequence", ts |-> p, impl |-> p.List, elements |-> elements,
     ok |-> TRUE, err |-> NoErr]

create_sequence(p, elements, w0) ==
    IF Fails(p, w0) THEN PyRaise(Nil, HostErr, CreateSequenceEvent(p, elements), w0)
    ELSE PyOk(Nil,
              IF p.List = "PyTuple" THEN PyTupleObj(elements) ELSE PyListObj(elements),
              CreateSequenceEvent(p, elements), w0)

\* PyTuple::new_bound(py, elements), called directly (not through P)
PyTuple_new_bound(elements, w0) ==
    [val |-> PyTupleObj(elements),
     w |-> Note(w0, [op |-> "PyTuple::new_bound", elements |-> elements])]

(***************************************************************************)
(* impl ser::Serializer for Pythonizer<'py, P>.  The type parameter P is   *)
(* the argument p; v.serialize(Pythonizer<P>) is Serialize(v, p, w0).      *)
(* A handler that makes several fallible calls is written as a chain of    *)
(* operators, one per `?`, each taking the result of the call before it.   *)
(***************************************************************************)
RECURSIVE Serialize(_, _, _)

\* pythonize_custom::<P, _>(py, value): value.serialize(Pythonizer::custom::<P>(py))
pythonize_custom(p, value, w0) == Serialize(value, p, w0)

\* pythonize(py, value): value.serialize(Pythonizer::new(py)), P = PythonizeDefault
pythonize(value, w0) == Serialize(value, PythonizeDefault, w0)

\* Ok(x?.into_any()) on the PyResult x of finish / create_sequence
IntoAny(x) ==
    IF x.st # "Ok" THEN Err(PythonizeError_from(x.err), x.w) ELSE Ok(x.val, x.w)

\* m.push_item(..)?; Ok(m.finish()?.into_any()), i the PyResult of push_item
FinishPushed(p, i) ==
    IF i.st # "Ok" THEN Err(PythonizeError_from(i.err), i.w)
    ELSE IntoAny(finish(p, i.b, i.w))

serialize_bool(p, v, w0) == Ok(PyBool(v), w0)

\* serialize_i8 .. serialize_u64: v.into_py(py)
serialize_int(p, v, w0) == Ok(PyInt(v), w0)

serialize_str(p, v, w0) == Ok(PyStr(v), w0)

\* v.to_string() of a char is the one-character string
serialize_char(p, v, w0) == serialize_str(p, v, w0)

serialize_bytes(p, v, w0) == Ok(PyBytesObj(v), w0)

\* serialize_none, were it to return Python's False
serialize_none_false(p, w0) == Ok(PyBool(FALSE), w0)

serialize_none(p, w0) == Ok(PyNone, w0)

\* serialize_some, were it to drop the payload
serialize_some_dropped(p, value, w0) == Ok(PyNone, w0)

serialize_some(p, value, w0) == Serialize(value, p, w0)

serialize_unit(p, w0) == serialize_none(p, w0)

serialize_unit_struct(p, name, w0) == serialize_none(p, w0)

serialize_unit_variant(p, name, variant, w0) == serialize_str(p, variant, w0)

serialize_newtype_struct(p, name, value, w0) == Serialize(value, p, w0)

\* m.push_item(variant, value.serialize(self)?)?; Ok(m.finish()?.into_any())
serialize_newtype_variant_push(p, variant, c, r) ==
    IF r.st # "Ok" THEN Propagate(r)
    ELSE FinishPushed(p, push_item(p, c.b, PyStr(variant), r.val, r.w))

\* c is the PyResult of P::NamedMap::create_builder(self.py, 1, name)
serialize_newtype_variant_value(p, variant, value, c) ==
    IF c.st # "Ok" THEN Err(PythonizeError_from(c.err), c.w)
    ELSE serialize_newtype_variant_push(p, variant, c, Serialize(value, p, c.w))

\* serialize_newtype_variant, were the wrapper's name hint the variant
serialize_newtype_variant_hint(p, name, variant, value, w0) ==
    serialize_newtype_variant_value(p, variant, value,
                                    NamedMap_create_builder(p, 1, variant, w0))

serialize_newtype_variant(p, name, variant, value, w0) ==
    serialize_newtype_variant_value(p, variant, value,
                                    NamedMap_create_builder(p, 1, name, w0))

\* PythonCollectionSerializer { items, py, _types }; as is the trait of
\* Serializer's associated type through which the driver holds it, cid the
\* ghost identity
NewCollection(p, as, w0) ==
    SOk([kind |-> "Collection", as |-> as, ts |-> p, items |-> <<>>,
         cid |-> NextCollectionId(w0)],
        Note(w0, [op |-> "new_collection", cid |-> NextCollectionId(w0)]))

serialize_seq(p, len, w0) == NewCollection(p, "SerializeSeq", w0)

serialize_tuple(p, len, w0) == NewCollection(p, "SerializeTuple", w0)

AsTupleStruct(r) == SOk([r.self EXCEPT !.as = "SerializeTupleStruct"], r.w)

serialize_tuple_struct(p, name, len, w0) == AsTupleStruct(serialize_tuple(p, len, w0))

NewTupleVariant(p, name, variant, inner) ==
    IF inner.st # "Ok" THEN SPropagate(Nil, inner)
    ELSE SOk([kind |-> "TupleVariant", ts |-> p, name |-> name, variant |-> variant,
              inner |-> inner.self], inner.w)

serialize_tuple_variant(p, name, variant, len, w0) ==
    NewTupleVariant(p, name, variant, serialize_tuple(p, len, w0))

NewMapSerializer(p, c) ==
    IF c.st # "Ok" THEN SErr(Nil, PythonizeError_from(c.err), c.w)
    ELSE SOk([kind |-> "Map", ts |-> p, builder |-> c.b, key |-> <<>>], c.w)

serialize_map(p, len, w0) == NewMapSerializer(p, Map_create_builder(p, len, w0))

NewStructDict(p, c) ==
    IF c.st # "Ok" THEN SErr(Nil, PythonizeError_from(c.err), c.w)
    ELSE SOk([kind |-> "StructDict", ts |-> p, builder |-> c.b], c.w)

serialize_struct(p, name, len, w0) ==
    NewStructDict(p, NamedMap_create_builder(p, len, name, w0))

NewStructVariant(p, name, variant, c) ==
    IF c.st # "Ok" THEN SErr(Nil, PythonizeError_from(c.err), c.w)
    ELSE SOk([kind |-> "StructVariant", ts |-> p, name |-> name, variant |-> variant,
              inner |-> [kind |-> "StructDict", ts |-> p, builder |-> c.b]], c.w)

\* serialize_struct_variant, were the inner mapping's name hint the enum's name
serialize_struct_variant_enum_hint(p, name, variant, len, w0) ==
    NewStructVariant(p, name, variant, NamedMap_create_builder(p, len, name, w0))

serialize_struct_variant(p, name, variant, len, w0) ==
    NewStructVariant(p, name, variant, NamedMap_create_builder(p, len, variant, w0))

(***************************************************************************)
(* impl SerializeSeq / SerializeTuple / SerializeTupleStruct for           *)
(* PythonCollectionSerializer.                                             *)
(***************************************************************************)
\* self.items.push(r?), r the Result of pythonize_custom
ItemsPush(s, r) ==
    IF r.st # "Ok" THEN SPropagate(s, r)
    ELSE SOk([s EXCEPT !.items = Append(s.items, r.val)],
             Note(r.w, [op |-> "items.push", cid |-> s.cid, value |-> r.val]))

\* serialize_element, were it to convert the element with the default types
SerializeSeq_serialize_element_default(s, value, w0) ==
    ItemsPush(s, pythonize(value, w0))

SerializeSeq_serialize_element(s, value, w0) ==
    ItemsPush(s, pythonize_custom(s.ts, value, w0))

SerializeSeq_end(s, w0) ==
    IntoAny(create_sequence(s.ts, s.items, Note(w0, [op |-> "end", cid |-> s.cid])))

SerializeTuple_serialize_element(s, value, w0) ==
    SerializeSeq_serialize_element(s, value, w0)

TupleIntoAny(t) == Ok(t.val, t.w)

\* SerializeTuple::end, were it to go through P::List as SerializeSeq::end does
SerializeTuple_end_list(s, w0) == SerializeSeq_end(s, w0)

SerializeTuple_end(s, w0) ==
    TupleIntoAny(PyTuple_new_bound(s.items, Note(w0, [op |-> "end", cid |-> s.cid])))

SerializeTupleStruct_serialize_field(s, value, w0) ==
    SerializeSeq_serialize_element(s, value, w0)

SerializeTupleStruct_end(s, w0) == SerializeTuple_end(s, w0)

(***************************************************************************)
(* impl SerializeTupleVariant for PythonTupleVariantSerializer.            *)
(***************************************************************************)
SetInner(s, r) == [r EXCEPT !.self = [s EXCEPT !.inner = r.self]]

SerializeTupleVariant_serialize_field(s, value, w0) ==
    SetInner(s, SerializeSeq_serialize_element(s.inner, value, w0))

\* m.push_item(self.variant, SerializeTuple::end(self.inner)?)?; finish
SerializeTupleVariant_end_push(s, c, t) ==
    IF t.st # "Ok" THEN Propagate(t)
    ELSE FinishPushed(s.ts, push_item(s.ts, c.b, PyStr(s.variant), t.val, t.w))

\* c is the PyResult of P::NamedMap::create_builder(self.inner.py, 1, self.name)
SerializeTupleVariant_end_inner(s, c) ==
    IF c.st # "Ok" THEN Err(PythonizeError_from(c.err), c.w)
    ELSE SerializeTupleVariant_end_push(s, c, SerializeTuple_end(s.inner, c.w))

SerializeTupleVariant_end(s, w0) ==
    SerializeTupleVariant_end_inner(s, NamedMap_create_builder(s.ts, 1, s.name, w0))

(***************************************************************************)
(* impl SerializeMap for PythonMapSerializer: key is <<>> for None and     *)
(* <<k>> for Some(k).                                                      *)
(***************************************************************************)
\* SetKey, were a pending key kept when another key arrives
SetKey_kept(s, r) ==
    IF r.st # "Ok" THEN SPropagate(s, r)
    ELSE SOk(IF s.key = <<>> THEN [s EXCEPT !.key = <<r.val>>] ELSE s, r.w)

SetKey(s, r) ==
    IF r.st # "Ok" THEN SPropagate(s, r) ELSE SOk([s EXCEPT !.key = <<r.val>>], r.w)

SerializeMap_serialize_key(s, key, w0) == SetKey(s, pythonize_custom(s.ts, key, w0))

\* MapPushed, were the PyErr of push_item swallowed
MapPushed_swallowed(taken, i) == SOk([taken EXCEPT !.builder = i.b], i.w)

\* self.builder.push_item(..)?; Ok(()), i the PyResult of push_item; taken is
\* the serializer after key.take()
MapPushed(taken, i) ==
    IF i.st # "Ok" THEN SErr(taken, PythonizeError_from(i.err), i.w)
    ELSE SOk([taken EXCEPT !.builder = i.b], i.w)

\* MapPush, were key and value handed over in the other order
MapPush_swapped(taken, key, r) ==
    IF r.st # "Ok" THEN SPropagate(taken, r)
    ELSE MapPushed(taken, push_item(taken.ts, taken.builder, r.val, key, r.w))

\* r is the Result of pythonize_custom on the value, key the key taken
MapPush(taken, key, r) ==
    IF r.st # "Ok" THEN SPropagate(taken, r)
    ELSE MapPushed(taken, push_item(taken.ts, taken.builder, key, r.val, r.w))

\* serialize_value, were a missing key an error value
SerializeMap_serialize_value_err(s, value, w0) ==
    IF s.key = <<>> THEN SErr(s, PythonizeError_custom("no key"), w0)
    ELSE MapPush([s EXCEPT !.key = <<>>], s.key[1], pythonize_custom(s.ts, value, w0))

\* the arguments of push_item are evaluated in order: key.take().expect(..)
\* first (a panic when no key is pending), then the value's conversion
SerializeMap_serialize_value(s, value, w0) ==
    IF s.key = <<>> THEN SPanic(s, w0)
    ELSE MapPush([s EXCEPT !.key = <<>>], s.key[1], pythonize_custom(s.ts, value, w0))

\* SerializeMap::end, were the dict returned without finish()
SerializeMap_end_unfinished(s, w0) == Ok(PyDictObj(s.builder.items), w0)

SerializeMap_end(s, w0) == IntoAny(finish(s.ts, s.builder, w0))

(***************************************************************************)
(* impl SerializeStruct for PythonStructDictSerializer; a field is         *)
(* <<key, value>>.                                                         *)
(***************************************************************************)
StructPushed(s, i) ==
    IF i.st # "Ok" THEN SErr(s, PythonizeError_from(i.err), i.w)
    ELSE SOk([s EXCEPT !.builder = i.b], i.w)

StructPush(s, key, r) ==
    IF r.st # "Ok" THEN SPropagate(s, r)
    ELSE StructPushed(s, push_item(s.ts, s.builder, PyStr(key), r.val, r.w))

SerializeStruct_serialize_field(s, field, w0) ==
    StructPush(s, field[1], pythonize_custom(s.ts, field[2], w0))

SerializeStruct_end(s, w0) == IntoAny(finish(s.ts, s.builder, w0))

(***************************************************************************)
(* impl SerializeStructVariant for PythonStructVariantSerializer.          *)
(***************************************************************************)
StructVariantPushed(s, i) ==
    IF i.st # "Ok" THEN SErr(s, PythonizeError_from(i.err), i.w)
    ELSE SOk([s EXCEPT !.inner.builder = i.b], i.w)

StructVariantPush(s, key, r) ==
    IF r.st # "Ok" THEN SPropagate(s, r)
    ELSE StructVariantPushed(s, push_item(s.ts, s.inner.builder, PyStr(key), r.val, r.w))

SerializeStructVariant_serialize_field(s, field, w0) ==
    StructVariantPush(s, field[1], pythonize_custom(s.ts, field[2], w0))

\* the wrapper's push_item, were it keyed by the enum's name
SerializeStructVariant_end_push_name(s, v, c) ==
    IF c.st # "Ok" THEN Err(PythonizeError_from(c.err), c.w)
    ELSE FinishPushed(s.ts, push_item(s.ts, c.b, PyStr(s.name), v.val, c.w))

\* m.push_item(self.variant, v)?; finish, c the PyResult of create_builder
SerializeStructVariant_end_push(s, v, c) ==
    IF c.st # "Ok" THEN Err(PythonizeError_from(c.err), c.w)
    ELSE FinishPushed(s.ts, push_item(s.ts, c.b, PyStr(s.variant), v.val, c.w))

\* v is the PyResult of self.inner.builder.finish()
SerializeStructVariant_end_wrap(s, v) ==
    IF v.st # "Ok" THEN Err(PythonizeError_from(v.err), v.w)
    ELSE SerializeStructVariant_end_push(s, v,
                                         NamedMap_create_builder(s.ts, 1, s.name, v.w))

SerializeStructVariant_end(s, w0) ==
    SerializeStructVariant_end_wrap(s, finish(s.ts, s.inner.builder, w0))

(***************************************************************************)
(* Dispatch of the compound serializers' methods on the trait the driver   *)
(* holds the serializer as.                                                *)
(***************************************************************************)
Method(s, m, a, w0) ==
    CASE s.kind = "Collection" /\ s.as = "SerializeSeq" /\ m = "serialize_element" ->
            SerializeSeq_serialize_element(s, a, w0)
      [] s.kind = "Collection" /\ s.as = "SerializeTuple" /\ m = "serialize_element" ->
            SerializeTuple_serialize_element(s, a, w0)
      [] s.kind = "Collection" /\ s.as = "SerializeTupleStruct" /\ m = "serialize_field" ->
            SerializeTupleStruct_serialize_field(s, a, w0)
      [] s.kind = "TupleVariant" /\ m = "serialize_field" ->
            SerializeTupleVariant_serialize_field(s, a, w0)
      [] s.kind = "Map" /\ m = "serialize_key" ->
            SerializeMap_serialize_key(s, a, w0)
      [] s.kind = "Map" /\ m = "serialize_value" ->
            SerializeMap_serialize_value(s, a, w0)
      [] s.kind = "StructDict" /\ m = "serialize_field" ->
            SerializeStruct_serialize_field(s, a, w0)
      [] s.kind = "StructVariant" /\ m = "serialize_field" ->
            SerializeStructVariant_serialize_field(s, a, w0)

End(s, w0) ==
    CASE s.kind = "Collection" /\ s.as = "SerializeSeq" -> SerializeSeq_end(s, w0)
      [] s.kind = "Collection" /\ s.as = "SerializeTuple" -> SerializeTuple_end(s, w0)
      [] s.kind = "Collection" /\ s.as = "SerializeTupleStruct" ->
            SerializeTupleStruct_end(s, w0)
      [] s.kind = "TupleVariant" -> SerializeTupleVariant_end(s, w0)
      [] s.kind = "Map" -> SerializeMap_end(s, w0)
      [] s.kind = "StructDict" -> SerializeStruct_end(s, w0)
      [] s.kind = "StructVariant" -> SerializeStructVariant_end(s, w0)

(***************************************************************************)
(* Values of the serde data model, and the calls their Serialize impls     *)
(* (serde's impls for std types and #[derive(Serialize)]) make.            *)
(***************************************************************************)
VUnit == [k |-> "unit"]
VBool(b) == [k |-> "bool", b |-> b]
VInt(i) == [k |-> "int", i |-> i]
VStr(s) == [k |-> "str", s |-> s]
VChar(c) == [k |-> "char", s |-> c]
VBytes(bs) == [k |-> "bytes", bs |-> bs]
VNone == [k |-> "none"]
VSome(v) == [k |-> "some", v |-> v]
VUnitStruct(name) == [k |-> "unit_struct", name |-> name]
VNewtypeStruct(name, v) == [k |-> "newtype_struct", name |-> name, v |-> v]
VSeq(items) == [k |-> "seq", items |-> items]
VTuple(items) == [k |-> "tuple", items |-> items]
VTupleStruct(name, items) == [k |-> "tuple_struct", name |-> name, items |-> items]
VMap(entries) == [k |-> "map", entries |-> entries]
VStruct(name, fields) == [k |-> "struct", name |-> name, fields |-> fields]
VUnitVariant(name, variant) ==
    [k |-> "unit_variant", name |-> name, variant |-> variant]
VNewtypeVariant(name, variant, v) ==
    [k |-> "newtype_variant", name |-> name, variant |-> variant, v |-> v]
VTupleVariant(name, variant, items) ==
    [k |-> "tuple_variant", name |-> name, variant |-> variant, items |-> items]
VStructVariant(name, variant, fields) ==
    [k |-> "struct_variant", name |-> name, variant |-> variant, fields |-> fields]
\* a value whose Serialize impl returns Err(ser::Error::custom(msg))
VFail(msg) == [k |-> "fail", msg |-> msg]

\* the driver's loop `for x in .. { ser.method(x)?; }`: stops at the first
\* call that does not return Ok
RECURSIVE RunCalls(_, _, _)

RunCallsNext(rest, r) == IF r.st # "Ok" THEN r ELSE RunCalls(r.self, rest, r.w)

RunCalls(s, calls, w0) ==
    IF calls = <<>> THEN SOk(s, w0)
    ELSE RunCallsNext(Tail(calls), Method(s, Head(calls).m, Head(calls).a, w0))

CompoundEnd(r) == IF r.st # "Ok" THEN Propagate(r) ELSE End(r.self, r.w)

\* let mut s = serializer.serialize_xxx(..)?; <calls>; s.end()
Compound(open, calls) ==
    IF open.st # "Ok" THEN Propagate(open)
    ELSE CompoundEnd(RunCalls(open.self, calls, open.w))

ElementCalls(m, items) == [i \in 1..Len(items) |-> [m |-> m, a |-> items[i]]]

\* SerializeMap::serialize_entry: serialize_key(k)?; serialize_value(v)
EntryCalls(entries) ==
    [i \in 1..(2 * Len(entries)) |->
        IF i % 2 = 1 THEN [m |-> "serialize_key", a |-> entries[(i + 1) \div 2][1]]
                     ELSE [m |-> "serialize_value", a |-> entries[i \div 2][2]]]

\* <T as Serialize>::serialize(v, Pythonizer<P>)
SerializeImpl(v, p, w1) ==
    CASE v.k = "unit" -> serialize_unit(p, w1)
      [] v.k = "bool" -> serialize_bool(p, v.b, w1)
      [] v.k = "int" -> serialize_int(p, v.i, w1)
      [] v.k = "str" -> serialize_str(p, v.s, w1)
      [] v.k = "char" -> serialize_char(p, v.s, w1)
      [] v.k = "bytes" -> serialize_bytes(p, v.bs, w1)
      [] v.k = "none" -> serialize_none(p, w1)
      [] v.k = "some" -> serialize_some(p, v.v, w1)
      [] v.k = "unit_struct" -> serialize_unit_struct(p, v.name, w1)
      [] v.k = "newtype_struct" -> serialize_newtype_struct(p, v.name, v.v, w1)
      [] v.k = "unit_variant" -> serialize_unit_variant(p, v.name, v.variant, w1)
      [] v.k = "newtype_variant" ->
            serialize_newtype_variant(p, v.name, v.variant, v.v, w1)
      [] v.k = "seq" ->
            Compound(serialize_seq(p, <<Len(v.items)>>, w1),
                     ElementCalls("serialize_element", v.items))
      [] v.k = "tuple" ->
            Compound(serialize_tuple(p, Len(v.items), w1),
                     ElementCalls("serialize_element", v.items))
      [] v.k = "tuple_struct" ->
            Compound(serialize_tuple_struct(p, v.name, Len(v.items), w1),
                     ElementCalls("serialize_field", v.items))
      [] v.k = "tuple_variant" ->
            Compound(serialize_tuple_variant(p, v.name, v.variant, Len(v.items), w1),
                     ElementCalls("serialize_field", v.items))
      [] v.k = "map" ->
            Compound(serialize_map(p, <<Len(v.entries)>>, w1), EntryCalls(v.entries))
      [] v.k = "struct" ->
            Compound(serialize_struct(p, v.name, Len(v.fields), w1),
                     ElementCalls("serialize_field", v.fields))
      [] v.k = "struct_variant" ->
            Compound(serialize_struct_variant(p, v.name, v.variant, Len(v.fields), w1),
                     ElementCalls("serialize_field", v.fields))
      [] v.k = "fail" -> Err(PythonizeError_custom(v.msg), w1)

\* value.serialize(Pythonizer<P>), noted in the log
Serialize(v, p, w0) ==
    SerializeImpl(v, p, Note(w0, [op |-> "serialize", ts |-> p, v |-> v]))

(***************************************************************************)
(* Inputs.                                                                 *)
(***************************************************************************)
StructName == "S"
EnumName == "E"
FieldNames == <<"foo", "bar", "baz", "qux">>

Leaves ==
    {VUnit, VBool(TRUE), VInt(5), VInt(-12), VStr("foo"), VStr("caf\\u00e9"),
     VChar("a"), VBytes(<<102, 111, 111>>), VNone, VUnitStruct(StructName),
     VUnitVariant(EnumName, "Empty"), VFail("boom")}

\* map keys: strings, an integer, unit (None in Python), a sequence (a list,
\* unhashable in Python)
KeyValues == {VStr("foo"), VStr("bar"), VInt(1), VUnit, VSeq(<<>>)}

\* field lists of a struct: the i-th field has the i-th name
FieldLists(S) ==
    UNION {{[i \in 1..n |-> <<FieldNames[i], f[i]>>] : f \in [1..n -> S]} : n \in 0..MaxLen}

\* the values with one more level of nesting over the values S, maps taking
\* their values from M
Level(S, M) ==
    S \cup {VSome(v) : v \in S}
      \cup {VNewtypeStruct(StructName, v) : v \in S}
      \cup {VNewtypeVariant(EnumName, "NewType", v) : v \in S}
      \cup {VSeq(x) : x \in SeqsUpTo(S, MaxLen)}
      \cup {VTuple(x) : x \in SeqsUpTo(S, MaxLen)}
      \cup {VTupleStruct(StructName, x) : x \in SeqsUpTo(S, MaxLen)}
      \cup {VTupleVariant(EnumName, "Tuple", x) : x \in SeqsUpTo(S, MaxLen)}
      \cup {VMap(e) : e \in SeqsUpTo(KeyValues \X M, MaxLen)}
      \cup {VStruct(StructName, f) : f \in FieldLists(M)}
      \cup {VStructVariant(EnumName, "Struct", f) : f \in FieldLists(M)}

MapLeaves == {VInt(5), VStr("foo"), VBytes(<<102, 111, 111>>), VFail("boom")}

Nested ==
    {VInt(5),
     VSeq(<<VStr("foo"), VNone>>),
     VTuple(<<VInt(5)>>),
     VMap(<< <<VStr("foo"), VInt(5)>> >>),
     VStructVariant(EnumName, "Struct", << <<"foo", VSeq(<<VInt(5)>>)>> >>),
     VFail("boom")}

\* the values handed to pythonize / pythonize_custom
TopValues == Level(Leaves, MapLeaves) \cup Level(Nested, Nested)

\* the sub-values the driver of a compound serializer hands over
ElemValues ==
    {VStr("foo"),
     VSeq(<<VInt(5), VTuple(<<VNone>>)>>),
     VMap(<< <<VStr("bar"), VSeq(<<VInt(1)>>)>> >>),
     VFail("boom")}

DriverKeys == {VStr("foo"), VInt(1), VSeq(<<>>)}

DriverValues ==
    {VInt(5), VNewtypeVariant(EnumName, "NewType", VSeq(<<VStr("foo")>>)), VFail("boom")}

DriverFields ==
    {<<FieldNames[i], v>> : i \in 1..2,
                            v \in {VInt(5), VTupleVariant(EnumName, "Tuple", <<VInt(5)>>),
                                   VFail("boom")}}

\* declared lengths: Option<usize> for sequences and maps, usize otherwise
OptLens == {<<>>, <<2>>}
Lens == {1, 2}

(***************************************************************************)
(* The state: one top-level conversion with type set P.  ser is what the   *)
(* driver (the value's Serialize impl) holds: the Pythonizer, then the     *)
(* compound serializer it opened, then nothing.  hist is the driver's      *)
(* calls so far; result the Result the conversion returned.                *)
(***************************************************************************)
Consumed == [kind |-> "consumed"]
NoResult == [st |-> "none", val |-> Nil, err |-> NoErr]

ResultOf(r) == [st |-> r.st, val |-> r.val, err |-> r.err]

Called(m, a, r) ==
    Append(hist, [m |-> m, a |-> a, st |-> r.st, n0 |-> Len(w.log), n1 |-> Len(r.w.log)])

Init ==
    /\ P \in TypeSets
    /\ ser = [kind |-> "Pythonizer", ts |-> P]
    /\ w = EmptyWorld
    /\ result = NoResult
    /\ hist = <<>>

\* a Serializer method that returns the converted value
Returns(m, a, r) ==
    /\ ser.kind = "Pythonizer"
    /\ ser' = Consumed
    /\ w' = r.w
    /\ result' = ResultOf(r)
    /\ hist' = Called(m, a, r)
    /\ UNCHANGED P

\* a Serializer method that returns a compound serializer; the driver
\* returns the error of a call (`?`)
Opens(m, a, r) ==
    /\ ser.kind = "Pythonizer"
    /\ ser' = IF r.st = "Ok" THEN r.self ELSE Consumed
    /\ w' = r.w
    /\ result' = IF r.st = "Ok" THEN NoResult
                 ELSE [st |-> r.st, val |-> Nil, err |-> r.err]
    /\ hist' = Called(m, a, r)
    /\ UNCHANGED P

\* a &mut self method of the compound serializer the driver holds
Calls(m, a, r) ==
    /\ Len(hist) <= MaxCalls
    /\ ser' = IF r.st = "Ok" THEN r.self ELSE Consumed
    /\ w' = r.w
    /\ result' = IF r.st = "Ok" THEN NoResult
                 ELSE [st |-> r.st, val |-> Nil, err |-> r.err]
    /\ hist' = Called(m, a, r)
    /\ UNCHANGED P

\* end(self)
Ends(r) ==
    /\ ser' = Consumed
    /\ w' = r.w
    /\ result' = ResultOf(r)
    /\ hist' = Called("end", <<>>, r)
    /\ UNCHANGED P

(***************************************************************************)
(* The entry points, on a well-formed value.                               *)
(***************************************************************************)
Pythonize ==
    /\ ser.kind = "Pythonizer"
    /\ P = PythonizeDefault
    /\ \E v \in TopValues : Returns("pythonize", v, pythonize(v, w))

PythonizeCustom ==
    /\ ser.kind = "Pythonizer"
    /\ \E v \in TopValues : Returns("pythonize_custom", v, pythonize_custom(P, v, w))

(***************************************************************************)
(* The driver's calls on the Pythonizer.                                   *)
(***************************************************************************)
SerializeBool == \E b \in BOOLEAN : Returns("serialize_bool", b, serialize_bool(P, b, w))

SerializeInt == \E i \in {-12, 5} : Returns("serialize_int", i, serialize_int(P, i, w))

SerializeStr ==
    \E x \in {"foo", "caf\\u00e9"} : Returns("serialize_str", x, serialize_str(P, x, w))

SerializeChar == \E c \in {"a"} : Returns("serialize_char", c, serialize_char(P, c, w))

SerializeBytes ==
    \E bs \in {<<>>, <<102, 111, 111>>} :
        Returns("serialize_bytes", bs, serialize_bytes(P, bs, w))

SerializeNone == Returns("serialize_none", <<>>, serialize_none(P, w))

SerializeSome ==
    \E v \in ElemValues : Returns("serialize_some", v, serialize_some(P, v, w))

SerializeUnit == Returns("serialize_unit", <<>>, serialize_unit(P, w))

SerializeUnitStruct ==
    Returns("serialize_unit_struct", StructName, serialize_unit_struct(P, StructName, w))

SerializeUnitVariant ==
    \E variant \in {"Empty", "Other"} :
        Returns("serialize_unit_variant", [name |-> EnumName, variant |-> variant],
                serialize_unit_variant(P, EnumName, variant, w))

SerializeNewtypeStruct ==
    \E v \in ElemValues :
        Returns("serialize_newtype_struct", v,
                serialize_newtype_struct(P, StructName, v, w))

SerializeNewtypeVariant ==
    \E v \in ElemValues :
        Returns("serialize_newtype_variant",
                [name |-> EnumName, variant |-> "NewType", v |-> v],
                serialize_newtype_variant(P, EnumName, "NewType", v, w))

SerializeSeq ==
    \E len \in OptLens : Opens("serialize_seq", len, serialize_seq(P, len, w))

SerializeTuple ==
    \E len \in Lens : Opens("serialize_tuple", len, serialize_tuple(P, len, w))

SerializeTupleStruct ==
    \E len \in Lens :
        Opens("serialize_tuple_struct", len,
              serialize_tuple_struct(P, StructName, len, w))

SerializeTupleVariant ==
    \E len \in Lens :
        Opens("serialize_tuple_variant",
              [name |-> EnumName, variant |-> "Tuple", len |-> len],
              serialize_tuple_variant(P, EnumName, "Tuple", len, w))

SerializeMap ==
    \E len \in OptLens : Opens("serialize_map", len, serialize_map(P, len, w))

SerializeStruct ==
    \E len \in Lens :
        Opens("serialize_struct", [name |-> StructName, len |-> len],
              serialize_struct(P, StructName, len, w))

SerializeStructVariant ==
    \E len \in Lens :
        Opens("serialize_struct_variant",
              [name |-> EnumName, variant |-> "Struct", len |-> len],
              serialize_struct_variant(P, EnumName, "Struct", len, w))

(***************************************************************************)
(* The driver's calls on the compound serializer it opened.                *)
(***************************************************************************)
IsCollection(as) == ser.kind = "Collection" /\ ser.as = as

SeqSerializeElement ==
    /\ IsCollection("SerializeSeq")
    /\ \E v \in ElemValues :
        Calls("serialize_element", v, SerializeSeq_serialize_element(ser, v, w))

SeqEnd == IsCollection("SerializeSeq") /\ Ends(SerializeSeq_end(ser, w))

TupleSerializeElement ==
    /\ IsCollection("SerializeTuple")
    /\ \E v \in ElemValues :
        Calls("serialize_element", v, SerializeTuple_serialize_element(ser, v, w))

TupleEnd == IsCollection("SerializeTuple") /\ Ends(SerializeTuple_end(ser, w))

TupleStructSerializeField ==
    /\ IsCollection("SerializeTupleStruct")
    /\ \E v \in ElemValues :
        Calls("serialize_field", v, SerializeTupleStruct_serialize_field(ser, v, w))

TupleStructEnd ==
    IsCollection("SerializeTupleStruct") /\ Ends(SerializeTupleStruct_end(ser, w))

TupleVariantSerializeField ==
    /\ ser.kind = "TupleVariant"
    /\ \E v \in ElemValues :
        Calls("serialize_field", v, SerializeTupleVariant_serialize_field(ser, v, w))

TupleVariantEnd == ser.kind = "TupleVariant" /\ Ends(SerializeTupleVariant_end(ser, w))

MapSerializeKey ==
    /\ ser.kind = "Map"
    /\ \E key \in DriverKeys :
        Calls("serialize_key", key, SerializeMap_serialize_key(ser, key, w))

MapSerializeValue ==
    /\ ser.kind = "Map"
    /\ \E v \in DriverValues :
        Calls("serialize_value", v, SerializeMap_serialize_value(ser, v, w))

MapEnd == ser.kind = "Map" /\ Ends(SerializeMap_end(ser, w))

StructSerializeField ==
    /\ ser.kind = "StructDict"
    /\ \E f \in DriverFields :
        Calls("serialize_field", f, SerializeStruct_serialize_field(ser, f, w))

StructEnd == ser.kind = "StructDict" /\ Ends(SerializeStruct_end(ser, w))

StructVariantSerializeField ==
    /\ ser.kind = "StructVariant"
    /\ \E f \in DriverFields :
        Calls("serialize_field", f, SerializeStructVariant_serialize_field(ser, f, w))

StructVariantEnd ==
    ser.kind = "StructVariant" /\ Ends(SerializeStructVariant_end(ser, w))

Next ==
    \/ Pythonize
    \/ PythonizeCustom
    \/ SerializeBool
    \/ SerializeInt
    \/ SerializeStr
    \/ SerializeChar
    \/ SerializeBytes
    \/ SerializeNone
    \/ SerializeSome
    \/ SerializeUnit
    \/ SerializeUnitStruct
    \/ SerializeUnitVariant
    \/ SerializeNewtypeStruct
    \/ SerializeNewtypeVariant
    \/ SerializeSeq
    \/ SerializeTuple
    \/ SerializeTupleStruct
    \/ SerializeTupleVariant
    \/ SerializeMap
    \/ SerializeStruct
    \/ SerializeStructVariant
    \/ SeqSerializeElement
    \/ SeqEnd
    \/ TupleSerializeElement
    \/ TupleEnd
    \/ TupleStructSerializeField
    \/ TupleStructEnd
    \/ TupleVariantSerializeField
    \/ TupleVariantEnd
    \/ MapSerializeKey
    \/ MapSerializeValue
    \/ MapEnd
    \/ StructSerializeField
    \/ StructEnd
    \/ StructVariantSerializeField
    \/ StructVariantEnd

Spec == Init /\ [][Next]_vars

(***************************************************************************)
(* test_ser: the two JSON encoders the round trip is checked against.      *)
(* Both return [ok, out], out the UTF-8 bytes of the text.  CodePoints     *)
(* gives the characters of every string of the model; the TLA+ string      *)
(* "caf\\u00e9" stands for the four characters c, a, f, U+00E9.            *)
(***************************************************************************)
CodePoints ==
    [s \in {"foo", "bar", "baz", "qux", "a", "caf\\u00e9", "Empty", "Other",
            "NewType", "Tuple", "Struct", "E", "S"} |->
        CASE s = "foo" -> <<102, 111, 111>>
          [] s = "bar" -> <<98, 97, 114>>
          [] s = "baz" -> <<98, 97, 122>>
          [] s = "qux" -> <<113, 117, 120>>
          [] s = "a" -> <<97>>
          [] s = "caf\\u00e9" -> <<99, 97, 102, 233>>
          [] s = "Empty" -> <<69, 109, 112, 116, 121>>
          [] s = "Other" -> <<79, 116, 104, 101, 114>>
          [] s = "NewType" -> <<78, 101, 119, 84, 121, 112, 101>>
          [] s = "Tuple" -> <<84, 117, 112, 108, 101>>
          [] s = "Struct" -> <<83, 116, 114, 117, 99, 116>>
          [] s = "E" -> <<69>>
          [] s = "S" -> <<83>>]

JsonNull == <<110, 117, 108, 108>>
JsonTrue == <<116, 114, 117, 101>>
JsonFalse == <<102, 97, 108, 115, 101>>

RECURSIVE Digits(_)
Digits(n) == IF n < 10 THEN <<48 + n>> ELSE Digits(n \div 10) \o <<48 + (n % 10)>>

Decimal(i) == IF i < 0 THEN <<45>> \o Digits(-i) ELSE Digits(i)

HexDigit(d) == IF d < 10 THEN 48 + d ELSE 87 + d

\* \uXXXX of a code point below 0x10000
UEscape(c) ==
    <<92, 117, HexDigit(c \div 4096), HexDigit((c \div 256) % 16),
      HexDigit((c \div 16) % 16), HexDigit(c % 16)>>

\* UTF-8 of a code point below 0x800
Utf8(c) == IF c < 128 THEN <<c>> ELSE <<192 + (c \div 64), 128 + (c % 64)>>

\* json.dumps (ensure_ascii=True) of a str: quote and backslash escaped,
\* non-ASCII as \uXXXX (code points from 0x20 on)
PyJsonChar(c) ==
    CASE c = 34 -> <<92, 34>>
      [] c = 92 -> <<92, 92>>
      [] c >= 128 -> UEscape(c)
      [] OTHER -> <<c>>

PyJsonStr(s) ==
    <<34>> \o Concat([i \in 1..Len(CodePoints[s]) |-> PyJsonChar(CodePoints[s][i])])
           \o <<34>>

\* serde_json's format_escaped_str: quote and backslash escaped, the rest as
\* UTF-8
SerdeJsonChar(c) ==
    CASE c = 34 -> <<92, 34>>
      [] c = 92 -> <<92, 92>>
      [] OTHER -> Utf8(c)

SerdeJsonStr(s) ==
    <<34>> \o Concat([i \in 1..Len(CodePoints[s]) |-> SerdeJsonChar(CodePoints[s][i])])
           \o <<34>>

JOk(out) == [ok |-> TRUE, out |-> out]
JErr == [ok |-> FALSE, out |-> <<>>]

\* parts joined by commas between open and close
RECURSIVE JoinComma(_)
JoinComma(parts) ==
    IF parts = <<>> THEN <<>>
    ELSE IF Len(parts) = 1 THEN parts[1]
    ELSE parts[1] \o <<44>> \o JoinComma(Tail(parts))

Bracket(open, parts, close) ==
    IF \E i \in 1..Len(parts) : ~parts[i].ok THEN JErr
    ELSE JOk(<<open>> \o JoinComma([i \in 1..Len(parts) |-> parts[i].out]) \o <<close>>)

Member(key, value) ==
    IF key.ok /\ value.ok THEN JOk(key.out \o <<58>> \o value.out) ELSE JErr

\* json.dumps: a dict key must be str, int, float, bool or None
PyJsonKey(x) ==
    CASE x.t = "str" -> JOk(PyJsonStr(x.s))
      [] x.t = "int" -> JOk(<<34>> \o Decimal(x.i) \o <<34>>)
      [] x.t = "bool" -> JOk(<<34>> \o (IF x.b THEN JsonTrue ELSE JsonFalse) \o <<34>>)
      [] x.t = "None" -> JOk(<<34>> \o JsonNull \o <<34>>)
      [] OTHER -> JErr

\* json.dumps(obj, separators=(',', ':')); bytes is not JSON serializable
RECURSIVE PyJson(_)
PyJson(x) ==
    CASE x.t = "None" -> JOk(JsonNull)
      [] x.t = "bool" -> JOk(IF x.b THEN JsonTrue ELSE JsonFalse)
      [] x.t = "int" -> JOk(Decimal(x.i))
      [] x.t = "str" -> JOk(PyJsonStr(x.s))
      [] x.t \in {"list", "tuple"} ->
            Bracket(91, [i \in 1..Len(x.items) |-> PyJson(x.items[i])], 93)
      [] x.t = "dict" ->
            Bracket(123, [i \in 1..Len(x.items) |->
                            Member(PyJsonKey(x.items[i][1]), PyJson(x.items[i][2]))],
                    125)
      [] OTHER -> JErr

\* serde_json's MapKeySerializer: "key must be a string" for any other kind
RECURSIVE SerdeJsonKey(_)
SerdeJsonKey(v) ==
    CASE v.k \in {"str", "char"} -> JOk(SerdeJsonStr(v.s))
      [] v.k = "int" -> JOk(<<34>> \o Decimal(v.i) \o <<34>>)
      [] v.k = "unit_variant" -> JOk(SerdeJsonStr(v.variant))
      [] v.k = "newtype_struct" -> SerdeJsonKey(v.v)
      [] OTHER -> JErr

SerdeJsonName(name) == JOk(SerdeJsonStr(name))

\* serde_json::to_string(&src)
RECURSIVE SerdeJson(_)
SerdeJson(v) ==
    CASE v.k \in {"unit", "none", "unit_struct"} -> JOk(JsonNull)
      [] v.k = "bool" -> JOk(IF v.b THEN JsonTrue ELSE JsonFalse)
      [] v.k = "int" -> JOk(Decimal(v.i))
      [] v.k \in {"str", "char"} -> JOk(SerdeJsonStr(v.s))
      [] v.k = "bytes" -> JOk(<<91>> \o JoinComma([i \in 1..Len(v.bs) |-> Decimal(v.bs[i])])
                                    \o <<93>>)
      [] v.k \in {"some", "newtype_struct"} -> SerdeJson(v.v)
      [] v.k = "unit_variant" -> SerdeJsonName(v.variant)
      [] v.k = "newtype_variant" ->
            Bracket(123, <<Member(SerdeJsonName(v.variant), SerdeJson(v.v))>>, 125)
      [] v.k \in {"seq", "tuple", "tuple_struct"} ->
            Bracket(91, [i \in 1..Len(v.items) |-> SerdeJson(v.items[i])], 93)
      [] v.k = "tuple_variant" ->
            Bracket(123,
                    <<Member(SerdeJsonName(v.variant),
                             Bracket(91, [i \in 1..Len(v.items) |-> SerdeJson(v.items[i])],
                                     93))>>,
                    125)
      [] v.k = "map" ->
            Bracket(123, [i \in 1..Len(v.entries) |->
                            Member(SerdeJsonKey(v.entries[i][1]), SerdeJson(v.entries[i][2]))],
                    125)
      [] v.k = "struct" ->
            Bracket(123, [i \in 1..Len(v.fields) |->
                            Member(SerdeJsonName(v.fields[i][1]), SerdeJson(v.fields[i][2]))],
                    125)
      [] v.k = "struct_variant" ->
            Bracket(123,
                    <<Member(SerdeJsonName(v.variant),
                             Bracket(123, [i \in 1..Len(v.fields) |->
                                             Member(SerdeJsonName(v.fields[i][1]),
                                                    SerdeJson(v.fields[i][2]))],
                                     125))>>,
                    125)
      [] OTHER -> JErr

(***************************************************************************)
(* Vocabulary of the properties.                                           *)
(***************************************************************************)
Done == result.st # "none"

Last == hist[Len(hist)]

\* the arguments of the method calls between the opening call and end()
Args == [i \in 1..(Len(hist) - 2) |-> hist[i + 1].a]

Alternates ==
    /\ Len(hist) % 2 = 0
    /\ \A i \in 2..(Len(hist) - 1) :
        hist[i].m = IF i % 2 = 0 THEN "serialize_key" ELSE "serialize_value"

Entries == [i \in 1..((Len(hist) - 2) \div 2) |-> <<hist[2 * i].a, hist[2 * i + 1].a>>]

\* the conversion is over and the driver's calls were those of a whole value
Whole ==
    /\ Done
    /\ Len(hist) = 1 \/ Last.m = "end"
    /\ hist[1].m = "serialize_map" => Alternates

\* that value
TopValue ==
    LET c == hist[1]
    IN  CASE c.m \in {"pythonize", "pythonize_custom"} -> c.a
          [] c.m = "serialize_bool" -> VBool(c.a)
          [] c.m = "serialize_int" -> VInt(c.a)
          [] c.m = "serialize_str" -> VStr(c.a)
          [] c.m = "serialize_char" -> VChar(c.a)
          [] c.m = "serialize_bytes" -> VBytes(c.a)
          [] c.m = "serialize_none" -> VNone
          [] c.m = "serialize_some" -> VSome(c.a)
          [] c.m = "serialize_unit" -> VUnit
          [] c.m = "serialize_unit_struct" -> VUnitStruct(c.a)
          [] c.m = "serialize_unit_variant" -> VUnitVariant(c.a.name, c.a.variant)
          [] c.m = "serialize_newtype_struct" -> VNewtypeStruct(StructName, c.a)
          [] c.m = "serialize_newtype_variant" ->
                VNewtypeVariant(c.a.name, c.a.variant, c.a.v)
          [] c.m = "serialize_seq" -> VSeq(Args)
          [] c.m = "serialize_tuple" -> VTuple(Args)
          [] c.m = "serialize_tuple_struct" -> VTupleStruct(StructName, Args)
          [] c.m = "serialize_tuple_variant" -> VTupleVariant(c.a.name, c.a.variant, Args)
          [] c.m = "serialize_map" -> VMap(Entries)
          [] c.m = "serialize_struct" -> VStruct(c.a.name, Args)
          [] c.m = "serialize_struct_variant" ->
                VStructVariant(c.a.name, c.a.variant, Args)

NoFault(p) == [p EXCEPT !.failAt = 0]

\* what a sub-value converts to under P when no call fails
Conv(v) == pythonize_custom(NoFault(P), v, EmptyWorld).val

ConvAll(vs) == [i \in 1..Len(vs) |-> Conv(vs[i])]

\* the sub-values of v in the order of their serialization
SubValues(v) ==
    CASE v.k \in {"some", "newtype_struct", "newtype_variant"} -> <<v.v>>
      [] v.k \in {"seq", "tuple", "tuple_struct", "tuple_variant"} -> v.items
      [] v.k = "map" ->
            [i \in 1..(2 * Len(v.entries)) |-> v.entries[(i + 1) \div 2][2 - (i % 2)]]
      [] v.k \in {"struct", "struct_variant"} ->
            [i \in 1..Len(v.fields) |-> v.fields[i][2]]
      [] OTHER -> <<>>

\* a one-entry dict keyed by the string key
IsWrapper(x, key) == x.t = "dict" /\ Len(x.items) = 1 /\ x.items[1][1] = PyStr(key)

\* d is the dict of the fields: one entry per field name, holding the
\* conversion of the (last) field of that name
IsMappingOf(d, fields) ==
    /\ d.t = "dict"
    /\ {d.items[i][1] : i \in 1..Len(d.items)} =
           {PyStr(fields[j][1]) : j \in 1..Len(fields)}
    /\ Len(d.items) = Cardinality({fields[j][1] : j \in 1..Len(fields)})
    /\ \A i \in 1..Len(d.items) :
        \E j \in 1..Len(fields) :
            /\ d.items[i][1] = PyStr(fields[j][1])
            /\ \A j2 \in (j + 1)..Len(fields) : fields[j2][1] # fields[j][1]
            /\ d.items[i][2] = Conv(fields[j][2])

(***************************************************************************)
(* C1.  Enum wrapping law: a unit variant converts to the bare string of   *)
(* the variant name; a newtype, tuple or struct variant converts to a      *)
(* one-entry mapping keyed by the variant name, whose value is the         *)
(* converted payload, the sequence of the converted fields in order, or    *)
(* the mapping of field name to converted field.                           *)
(***************************************************************************)
EnumWrappingLaw ==
    (Whole /\ result.st = "Ok") =>
        LET v == TopValue
            x == result.val
        IN  CASE v.k = "unit_variant" -> x = PyStr(v.variant)
              [] v.k = "newtype_variant" ->
                    IsWrapper(x, v.variant) /\ x.items[1][2] = Conv(v.v)
              [] v.k = "tuple_variant" ->
                    /\ IsWrapper(x, v.variant)
                    /\ x.items[1][2].t \in {"list", "tuple"}
                    /\ x.items[1][2].items = ConvAll(v.items)
              [] v.k = "struct_variant" ->
                    IsWrapper(x, v.variant) /\ IsMappingOf(x.items[1][2], v.fields)
              [] OTHER -> TRUE

\* a struct variant with two fields, fed field by field, has been converted
EnumWrappingWitness ==
    /\ Whole
    /\ result.st = "Ok"
    /\ hist[1].m = "serialize_struct_variant"
    /\ Len(hist) = 4
    /\ hist[2].a[1] # hist[3].a[1]

(***************************************************************************)
(* C2.  Round trip: json.dumps(pythonize(v), separators=(',', ':')) is the *)
(* same text as serde_json::to_string(v).                                  *)
(***************************************************************************)
RECURSIVE Expressible(_)
Expressible(v) ==
    /\ v.k # "fail"
    /\ \A i \in 1..Len(SubValues(v)) : Expressible(SubValues(v)[i])

IsAscii(s) == \A i \in 1..Len(CodePoints[s]) : CodePoints[s][i] < 128

\* no byte-string, ASCII strings, and maps whose keys are strings, chars or
\* integers that become pairwise different Python keys
RECURSIVE RoundTrippable(_)
RoundTrippable(v) ==
    /\ v.k \notin {"fail", "bytes"}
    /\ v.k \in {"str", "char"} => IsAscii(v.s)
    /\ v.k = "map" =>
        /\ \A i \in 1..Len(v.entries) : v.entries[i][1].k \in {"str", "char", "int"}
        /\ \A i, j \in 1..Len(v.entries) :
            i < j => ~PyEq(Conv(v.entries[i][1]), Conv(v.entries[j][1]))
    /\ \A i \in 1..Len(SubValues(v)) : RoundTrippable(SubValues(v)[i])

RoundTrips(v) ==
    /\ result.st = "Ok"
    /\ PyJson(result.val).ok
    /\ SerdeJson(v).ok
    /\ PyJson(result.val).out = SerdeJson(v).out

NullLaw ==
    Whole =>
        /\ TopValue.k \in {"unit", "unit_struct", "none"} =>
              result.st = "Ok" /\ result.val = PyNone
        /\ TopValue.k \in {"some", "newtype_struct"} =>
              result = ResultOf(pythonize_custom(P, TopValue.v, EmptyWorld))

\* Some of a sequence has been converted, to a list or tuple
NullLawWitness ==
    /\ Whole
    /\ TopValue.k = "some"
    /\ TopValue.v.k = "seq"
    /\ result.st = "Ok"
    /\ result.val.t \in {"list", "tuple"}

(***************************************************************************)
(* Vocabulary of the properties about the log.                             *)
(***************************************************************************)
Log == w.log

\* the positions of the events of the driver's i-th call
During(i) == (hist[i].n0 + 1)..hist[i].n1

At(op) == {j \in 1..Len(Log) : Log[j].op = op}

OnBuilder(op, id) == {j \in At(op) : Log[j].id = id}

OnCollection(op, cid) == {j \in At(op) : Log[j].cid = cid}

Constructions == At("create_sequence") \cup At("PyTuple::new_bound")

\* the events at the positions J, in the order of the log
RECURSIVE InOrder(_)
InOrder(J) ==
    IF J = {} THEN <<>>
    ELSE LET j == CHOOSE x \in J : \A y \in J : x <= y
         IN  <<Log[j]>> \o InOrder(J \ {j})

SequenceOf(p, elements) ==
    IF p.List = "PyTuple" THEN PyTupleObj(elements) ELSE PyListObj(elements)

CollectionEnded ==
    /\ Done
    /\ Len(hist) >= 2
    /\ Last.m = "end"
    /\ hist[1].m \in {"serialize_seq", "serialize_tuple", "serialize_tuple_struct",
                      "serialize_tuple_variant"}

(***************************************************************************)
(* C3.  Collection end() uses the configured sequence factory: for every   *)
(* type set P and each of sequence, tuple, tuple-struct and tuple-variant  *)
(* payload, end() hands the accumulated elements to                       *)
(* P::List::create_sequence and returns its result, so that the sequence   *)
(* has the representation P selected.                                      *)
(***************************************************************************)
\* C3 as stated
CollectionEndUsesListFactory ==
    CollectionEnded =>
        /\ \E j \in During(Len(hist)) :
            /\ Log[j].op = "create_sequence"
            /\ Log[j].ts = P
            /\ Log[j].elements = ConvAll(Args)
        /\ (result.st = "Ok" /\ hist[1].m # "serialize_tuple_variant") =>
              result.val = SequenceOf(P, ConvAll(Args))

\* end() of a tuple variant creates the wrapper's builder first, and stops
\* there when that fails
WrapperRefused ==
    /\ hist[1].m = "serialize_tuple_variant"
    /\ Log[Last.n0 + 1].op = "create_builder"
    /\ ~Log[Last.n0 + 1].ok

\* C3, amended: only end() of a sequence hands the accumulated elements to
\* P::List::create_sequence and returns its result; end() of a tuple, of a
\* tuple struct and of a tuple variant's payload builds a Python tuple with
\* PyTuple::new_bound, whatever P::List is
CollectionEndByShape ==
    CollectionEnded =>
        IF hist[1].m = "serialize_seq"
        THEN /\ During(Len(hist)) \cap At("PyTuple::new_bound") = {}
             /\ Cardinality(During(Len(hist)) \cap At("create_sequence")) = 1
             /\ \A j \in During(Len(hist)) \cap At("create_sequence") :
                 /\ Log[j].ts = P
                 /\ Log[j].elements = ConvAll(Args)
                 /\ result.st = IF Log[j].ok THEN "Ok" ELSE "Err"
                 /\ result.val = IF Log[j].ok THEN SequenceOf(P, ConvAll(Args)) ELSE Nil
        ELSE /\ During(Len(hist)) \cap At("create_sequence") = {}
             /\ Cardinality(During(Len(hist)) \cap At("PyTuple::new_bound")) =
                   IF WrapperRefused THEN 0 ELSE 1
             /\ \A j \in During(Len(hist)) \cap At("PyTuple::new_bound") :
                 Log[j].elements = ConvAll(Args)
             /\ hist[1].m # "serialize_tuple_variant" =>
                   result = [st |-> "Ok", val |-> PyTupleObj(ConvAll(Args)), err |-> NoErr]
             /\ (hist[1].m = "serialize_tuple_variant" /\ result.st = "Ok") =>
                   result.val = PyDictObj(<< <<PyStr(hist[1].a.variant),
                                                PyTupleObj(ConvAll(Args))>> >>)

\* a tuple of two elements has been ended under a type set whose List is PyList
CollectionEndWitness ==
    /\ CollectionEnded
    /\ hist[1].m = "serialize_tuple"
    /\ Len(hist) = 4
    /\ P.List = "PyList"
    /\ result.st = "Ok"

(***************************************************************************)
(* C4.  Type-set threading: in a conversion started with type set P every  *)
(* sub-value, at every depth, is serialized by a Pythonizer of P, and      *)
(* every mapping builder and every sequence that comes from a type set     *)
(* comes from P.                                                           *)
(***************************************************************************)
RECURSIVE PreOrder(_)
PreOrder(v) ==
    <<v>> \o Concat([i \in 1..Len(SubValues(v)) |-> PreOrder(SubValues(v)[i])])

Serialized == [i \in 1..Len(InOrder(At("serialize"))) |-> InOrder(At("serialize"))[i].v]

TypeSetThreading ==
    /\ \A j \in At("serialize") : Log[j].ts = P
    /\ \A j \in At("create_builder") :
        /\ Log[j].ts = P
        /\ Log[j].impl = IF Log[j].trait = "Map" THEN P.Map ELSE P.NamedMap
    /\ \A j \in At("create_sequence") : Log[j].ts = P /\ Log[j].impl = P.List
    \* and every sub-value is serialized, in order, until one fails
    /\ (Done /\ hist[1].m \in {"pythonize", "pythonize_custom"}) =>
        /\ Len(Serialized) <= Len(PreOrder(hist[1].a))
        /\ Serialized = SubSeq(PreOrder(hist[1].a), 1, Len(Serialized))
        /\ result.st = "Ok" => Len(Serialized) = Len(PreOrder(hist[1].a))

\* a sequence of sequences has been converted with a caller's type set
TypeSetThreadingWitness ==
    /\ Done
    /\ result.st = "Ok"
    /\ hist[1].m = "pythonize_custom"
    /\ P = TupleTypes
    /\ hist[1].a.k = "seq"
    /\ Len(hist[1].a.items) = 2
    /\ hist[1].a.items[1].k = "seq"
    /\ hist[1].a.items[2].k = "map"

(***************************************************************************)
(* C5.  Map key/value pairing and order: when the driver alternates        *)
(* serialize_key(k_i), serialize_value(v_i) for i = 1..N and then calls    *)
(* end(), the builder receives exactly N push_item calls, the i-th during  *)
(* the i-th serialize_value and with (convert(k_i), convert(v_i)), and     *)
(* finish() is called after the last of them.                              *)
(***************************************************************************)
MapEnded ==
    /\ Done
    /\ hist[1].m = "serialize_map"
    /\ Len(hist) >= 2
    /\ Last.m = "end"
    /\ Alternates

\* the builder the map serializer was opened with
MapBuilderId == Log[hist[1].n1].id

MapPairingAndOrder ==
    MapEnded =>
        /\ Cardinality(OnBuilder("push_item", MapBuilderId)) = Len(Entries)
        /\ \A i \in 1..Len(Entries) :
            \E j \in During(2 * i + 1) \cap OnBuilder("push_item", MapBuilderId) :
                /\ Log[j].key = Conv(Entries[i][1])
                /\ Log[j].value = Conv(Entries[i][2])
        /\ OnBuilder("finish", MapBuilderId) = {Len(Log)}

\* a map of two different pairs has been traversed and ended
MapPairingWitness ==
    /\ MapEnded
    /\ Len(hist) = 6
    /\ result.st = "Ok"
    /\ hist[2].a # hist[4].a
    /\ hist[3].a # hist[5].a

(***************************************************************************)
(* C6.  Missing key is fatal: the map serializer holds at most one pending *)
(* key, and serialize_value with no key pending (as the first call, or     *)
(* directly after another serialize_value) panics: it returns neither an   *)
(* error value nor successfully, and no push_item reaches the builder.     *)
(***************************************************************************)
NoKeyPending(i) == i = 2 \/ hist[i - 1].m = "serialize_value"

MissingKeyIsFatal ==
    /\ ser.kind = "Map" => Len(ser.key) <= 1
    /\ \A i \in 2..Len(hist) :
        (hist[1].m = "serialize_map" /\ hist[i].m = "serialize_value" /\ NoKeyPending(i)) =>
            /\ hist[i].st = "Panic"
            /\ During(i) \cap At("push_item") = {}
            /\ i = Len(hist)
            /\ result.st = "Panic"
            /\ result.val = Nil

\* serialize_value has been called directly after a serialize_value
MissingKeyWitness ==
    /\ Len(hist) = 4
    /\ hist[1].m = "serialize_map"
    /\ hist[3].m = "serialize_value"
    /\ hist[4].m = "serialize_value"
    /\ result.st = "Panic"

(***************************************************************************)
(* C7.  Fail-fast error propagation: when the serialization of a           *)
(* sub-value, a create_builder, a push_item, a finish or a create_sequence *)
(* fails, the conversion returns an error and no value; the error is that  *)
(* of the first failure, unchanged; nothing is serialized, pushed,         *)
(* finished or created after it.                                           *)
(***************************************************************************)
IsFailure(e) ==
    \/ e.op \in {"create_builder", "push_item", "finish", "create_sequence"} /\ ~e.ok
    \/ e.op = "serialize" /\ e.v.k = "fail"

ErrorOf(e) ==
    IF e.op = "serialize" THEN PythonizeError_custom(e.v.msg)
    ELSE PythonizeError_from(e.err)

FailFast ==
    /\ \A j \in 1..Len(Log) :
        IsFailure(Log[j]) =>
            /\ j = Len(Log)
            /\ result = [st |-> "Err", val |-> Nil, err |-> ErrorOf(Log[j])]
            /\ ser = Consumed
    /\ result.st = "Err" => Log # <<>> /\ IsFailure(Log[Len(Log)])

\* the push_item of a map nested in a tuple has failed; the tuple's second
\* element is not serialized
FailFastWitness ==
    /\ result.st = "Err"
    /\ hist[1].m = "pythonize_custom"
    /\ hist[1].a.k = "tuple"
    /\ Len(hist[1].a.items) = 2
    /\ hist[1].a.items[1].k = "map"
    /\ Log[Len(Log)].op = "push_item"

(***************************************************************************)
(* C8.  Variant wrapper construction: for a newtype, tuple or struct       *)
(* variant the wrapper is created by P::NamedMap::create_builder with      *)
(* length 1 and the enum's name, receives exactly one push_item, keyed by  *)
(* the variant name and holding the converted payload, and is finished     *)
(* next; the payload's conversion is over when it is pushed.               *)
(***************************************************************************)
VariantConverted ==
    /\ Whole
    /\ result.st = "Ok"
    /\ TopValue.k \in {"newtype_variant", "tuple_variant", "struct_variant"}

IsPayloadOf(x, v) ==
    CASE v.k = "newtype_variant" -> x = Conv(v.v)
      [] v.k = "tuple_variant" -> x = PyTupleObj(ConvAll(v.items))
      [] v.k = "struct_variant" -> IsMappingOf(x, v.fields)

\* the wrapper is the builder finished last
WrapperId == Log[Len(Log)].id

VariantWrapperConstruction ==
    VariantConverted =>
        /\ Log[Len(Log)].op = "finish"
        /\ OnBuilder("finish", WrapperId) = {Len(Log)}
        /\ OnBuilder("push_item", WrapperId) = {Len(Log) - 1}
        /\ Log[Len(Log) - 1].key = PyStr(TopValue.variant)
        /\ IsPayloadOf(Log[Len(Log) - 1].value, TopValue)
        /\ \E j \in OnBuilder("create_builder", WrapperId) :
            /\ Log[j].trait = "NamedMap"
            /\ Log[j].len = 1
            /\ Log[j].name = TopValue.name
            /\ Log[j].name # TopValue.variant
        /\ Cardinality(OnBuilder("create_builder", WrapperId)) = 1

\* a tuple variant of two fields, fed field by field, has been converted
VariantWrapperWitness ==
    /\ VariantConverted
    /\ hist[1].m = "serialize_tuple_variant"
    /\ Len(hist) = 4

(***************************************************************************)
(* C10.  Accumulator consumed exactly once: in a conversion that returns   *)
(* successfully every mapping builder created is finished exactly once,    *)
(* after all its push_items; every collection hands its elements to a      *)
(* sequence constructor exactly once, at its end(), and they are the       *)
(* elements pushed, in push order; nothing is pushed after end().          *)
(***************************************************************************)
Pushed(cid) ==
    [i \in 1..Len(InOrder(OnCollection("items.push", cid))) |->
        InOrder(OnCollection("items.push", cid))[i].value]

Builders == At("create_builder")

Collections == At("new_collection")

ConsumedExactlyOnce ==
    /\ (Done /\ result.st = "Ok") =>
        /\ \A c \in Builders :
            /\ Cardinality(OnBuilder("finish", Log[c].id)) = 1
            /\ \A f \in OnBuilder("finish", Log[c].id) :
                /\ c < f
                /\ \A q \in OnBuilder("push_item", Log[c].id) : c < q /\ q < f
        /\ \A c \in Collections :
            /\ Cardinality(OnCollection("end", Log[c].cid)) = 1
            /\ \A e \in OnCollection("end", Log[c].cid) :
                /\ c < e
                /\ e + 1 \in Constructions
                /\ Log[e + 1].elements = Pushed(Log[c].cid)
                /\ \A q \in OnCollection("items.push", Log[c].cid) : c < q /\ q < e
        /\ Cardinality(Constructions) = Cardinality(Collections)
        /\ Cardinality(At("end")) = Cardinality(Collections)
        /\ Cardinality(At("finish")) = Cardinality(Builders)
    \* and the driver holds no serializer after end()
    /\ (hist # <<>> /\ Last.m = "end") => ser = Consumed

\* a conversion that used two builders and two collections has succeeded
ConsumedOnceWitness ==
    /\ Done
    /\ result.st = "Ok"
    /\ Cardinality(Builders) >= 2
    /\ Cardinality(Collections) >= 2
    /\ \E c \in Collections : Len(Pushed(Log[c].cid)) = 2

(***************************************************************************)
(* C11.  Unpaired keys are dropped silently: a serialize_key directly      *)
(* after a serialize_key replaces the pending key, without error and       *)
(* without a push_item for the first key; end() with a key pending         *)
(* finishes the builder without pushing that key; so in a session that     *)
(* does not abort the builder receives one push_item per serialize_value,  *)
(* which can be fewer than the serialize_key calls.                        *)
(***************************************************************************)
MapSession == hist # <<>> /\ hist[1].m = "serialize_map" /\ hist[1].st = "Ok"

CallsOf(m) == {i \in 2..Len(hist) : hist[i].m = m}

NotAborted == \A i \in 1..Len(hist) : hist[i].st = "Ok"

UnpairedKeysDropped ==
    (MapSession /\ NotAborted) =>
        \* a key is stored, replacing the one pending, and nothing is pushed
        /\ \A i \in CallsOf("serialize_key") :
            /\ During(i) \cap OnBuilder("push_item", MapBuilderId) = {}
            /\ (i = Len(hist)) => ser.key = <<Conv(hist[i].a)>>
        \* a value is pushed under the key stored last
        /\ \A i \in CallsOf("serialize_value") :
            /\ hist[i - 1].m = "serialize_key"
            /\ \E j \in During(i) \cap OnBuilder("push_item", MapBuilderId) :
                Log[j].key = Conv(hist[i - 1].a) /\ Log[j].value = Conv(hist[i].a)
            /\ (i = Len(hist)) => ser.key = <<>>
        \* end() pushes nothing, whether a key is pending or not
        /\ \A i \in CallsOf("end") :
            /\ During(i) \cap At("push_item") = {}
            /\ result.st = "Ok"
            /\ result.val.t = "dict"
            /\ Len(result.val.items) <= Cardinality(CallsOf("serialize_value"))
        /\ Cardinality(OnBuilder("push_item", MapBuilderId)) =
               Cardinality(CallsOf("serialize_value"))
        /\ Cardinality(CallsOf("serialize_value")) <= Cardinality(CallsOf("serialize_key"))

\* key, another key, value, a third key, end(): one push_item for three keys
UnpairedKeysWitness ==
    /\ MapSession
    /\ NotAborted
    /\ Len(hist) = 6
    /\ hist[2].m = "serialize_key"
    /\ hist[3].m = "serialize_key"
    /\ hist[2].a # hist[3].a
    /\ hist[4].m = "serialize_value"
    /\ hist[5].m = "serialize_key"
    /\ hist[6].m = "end"
    /\ Len(result.val.items) = 1

(***************************************************************************)
(* C12.  Struct-variant inner mapping hint: for a struct variant V of enum *)
(* E with declared field count n the inner mapping is created by           *)
(* P::NamedMap::create_builder with length n and name V, the wrapper with  *)
(* length 1 and name E; a struct S with n declared fields is created with  *)
(* length n and name S.  The fields are pushed into the inner builder      *)
(* under their names, in field order, and the inner builder is finished    *)
(* before the wrapper is created.                                          *)
(***************************************************************************)
Converting == hist # <<>> /\ hist[1].m \in {"pythonize", "pythonize_custom"}

\* the struct or struct variant being converted, opened by the driver or by
\* the Serialize impl of the value handed to pythonize / pythonize_custom
StructShape ==
    IF hist = <<>> THEN "none"
    ELSE IF Converting
    THEN (IF hist[1].a.k \in {"struct", "struct_variant"} THEN hist[1].a.k ELSE "none")
    ELSE IF hist[1].m = "serialize_struct" THEN "struct"
    ELSE IF hist[1].m = "serialize_struct_variant" THEN "struct_variant"
    ELSE "none"

\* the declared field count: the len argument of serialize_struct(_variant)
DeclaredLen == IF Converting THEN Len(hist[1].a.fields) ELSE hist[1].a.len

\* the position of the create_builder of the field mapping
FieldsCreated == IF Converting THEN 2 ELSE 1

FieldsId == Log[FieldsCreated].id

FieldPushes == InOrder(OnBuilder("push_item", FieldsId))

StructMappingHints ==
    StructShape # "none" =>
        /\ Log[FieldsCreated].op = "create_builder"
        /\ Log[FieldsCreated].trait = "NamedMap"
        /\ Log[FieldsCreated].len = DeclaredLen
        /\ Log[FieldsCreated].name =
               IF StructShape = "struct" THEN hist[1].a.name ELSE hist[1].a.variant
        \* end() creates the wrapper directly after the finish of the fields'
        \* builder, and not at all when that finish fails
        /\ (~Converting /\ Last.m = "end") =>
            \A c \in During(Len(hist)) \cap At("create_builder") :
                /\ StructShape = "struct_variant"
                /\ Log[c - 1].op = "finish"
                /\ Log[c - 1].id = FieldsId
                /\ Log[c - 1].ok
                /\ Log[c].trait = "NamedMap"
                /\ Log[c].len = 1
                /\ Log[c].name = hist[1].a.name
        /\ (Whole /\ result.st = "Ok") =>
            /\ Len(FieldPushes) = Len(TopValue.fields)
            /\ \A i \in 1..Len(FieldPushes) :
                /\ FieldPushes[i].key = PyStr(TopValue.fields[i][1])
                /\ FieldPushes[i].value = Conv(TopValue.fields[i][2])
            /\ StructShape = "struct" => OnBuilder("finish", FieldsId) = {Len(Log)}
            /\ StructShape = "struct_variant" =>
                \E f \in OnBuilder("finish", FieldsId) :
                    /\ \A q \in OnBuilder("push_item", FieldsId) : q < f
                    /\ f + 1 \in OnBuilder("create_builder", WrapperId)
                    /\ WrapperId # FieldsId
                    /\ Log[f + 1].trait = "NamedMap"
                    /\ Log[f + 1].len = 1
                    /\ Log[f + 1].name = hist[1].a.name

\* a struct variant declared with one field and fed two has been converted
StructMappingHintsWitness ==
    /\ Whole
    /\ result.st = "Ok"
    /\ hist[1].m = "serialize_struct_variant"
    /\ hist[1].a.len = 1
    /\ Len(hist) = 4
    /\ hist[2].a[1] # hist[3].a[1]
    /\ hist[3].a[2].k = "tuple_variant"

====
